---- MODULE Spec2Model ----
(***************************************************************************)
(* Model of the SynGen-DATA session: main.py (the Flet page, its two       *)
(* event handlers and the controls they drive) and                         *)
(* synthetic_generator.py (generate_synthetic_data).                       *)
(*                                                                         *)
(* Text is a sequence of one-character strings, a line of delimited text   *)
(* is a sequence of fields, a DataFrame is a record of its column names    *)
(* and its rows.  The external libraries are modelled by their contract:   *)
(* Python's int(), pandas' read_csv / to_csv / head / to_string, and the   *)
(* CTGAN synthesizer, whose fit and sample may each raise and whose        *)
(* sampled cell values are drawn nondeterministically (a seed).            *)
(***************************************************************************)
EXTENDS Integers, Sequences, FiniteSets, TLC

VARIABLES
    original_data,      \* main.py:29  nonlocal, the uploaded DataFrame or None
    synthetic_data_df,  \* main.py:30  nonlocal, the generated DataFrame or None
    rows_input,         \* main.py:40  rows_input.value, the text typed
    generate_disabled,  \* main.py:59  generate_button.disabled
    download_visible,   \* main.py:66  download_button.visible
    download_bytes,     \* main.py:65  download_button.file_bytes
    status_text,        \* main.py:72  status_text.value and .color
    output_container,   \* main.py:75  output_container.controls
    running,            \* the on_generate invocations between line 128 and line 130:
                        \* the num_rows local of each
    synth_log,          \* the synthesizer calls made by the latest generate_synthetic_data
    ever_upload_ok,     \* history: some upload has succeeded
    ever_gen_ok         \* history: some generate action has succeeded

vars == <<original_data, synthetic_data_df, rows_input, generate_disabled,
          download_visible, download_bytes, status_text, output_container,
          running, synth_log, ever_upload_ok, ever_gen_ok>>

(***************************************************************************)
(* Bounds of the model.                                                    *)
(***************************************************************************)
\* on_generate invocations that may be in flight at once (concurrent dispatch only)
MaxInFlight == 2
\* distinct random draws of the synthesizer's sample
NumSeeds == 1

\* main.py:141  synthetic_data_df.head(5)
PreviewRows == 5

(***************************************************************************)
(* Values.                                                                 *)
(***************************************************************************)
None == [df |-> FALSE, cols |-> <<>>, rows |-> <<>>]

DataFrame(cols, rows) == [df |-> TRUE, cols |-> cols, rows |-> rows]

\* pandas: DataFrame.shape
shape(t) == <<Len(t.rows), Len(t.cols)>>

\* pandas: DataFrame.empty, true when either axis has length 0
empty(t) == Len(t.rows) = 0 \/ Len(t.cols) = 0

Min(a, b) == IF a <= b THEN a ELSE b

(***************************************************************************)
(* Python's int(str): surrounding whitespace is stripped, one optional     *)
(* sign, then at least one decimal digit and nothing else.  Underscores    *)
(* between digits and non-ASCII digits are not among the model's inputs.   *)
(***************************************************************************)
Digits == <<"0", "1", "2", "3", "4", "5", "6", "7", "8", "9">>

IsDigit(c) == \E d \in 1..10 : Digits[d] = c

DigitVal(c) == (CHOOSE d \in 1..10 : Digits[d] = c) - 1

RECURSIVE StripLeft(_)
StripLeft(s) == IF s # <<>> /\ Head(s) = " " THEN StripLeft(Tail(s)) ELSE s

RECURSIVE StripRight(_)
StripRight(s) ==
    IF s # <<>> /\ s[Len(s)] = " " THEN StripRight(SubSeq(s, 1, Len(s) - 1)) ELSE s

RECURSIVE DecimalValue(_)
DecimalValue(s) ==
    IF s = <<>> THEN 0
    ELSE 10 * DecimalValue(SubSeq(s, 1, Len(s) - 1)) + DigitVal(s[Len(s)])

py_int(s) ==
    LET t == StripRight(StripLeft(s))
        signed == t # <<>> /\ Head(t) \in {"-", "+"}
        body == IF signed THEN Tail(t) ELSE t
    IN  IF body = <<>> \/ \E i \in 1..Len(body) : ~IsDigit(body[i])
        THEN [ok |-> FALSE, val |-> 0]
        ELSE [ok |-> TRUE,
              val |-> IF signed /\ Head(t) = "-" THEN 0 - DecimalValue(body)
                      ELSE DecimalValue(body)]

(***************************************************************************)
(* The inputs a user can give.                                             *)
(***************************************************************************)
\* the texts typed into the row-count field; "100" is its initial value (main.py:42)
RowInputs ==
    { <<"1", "0", "0">>, <<"3">>, <<"0">>, <<"-", "5">>, <<"a", "b", "c">>, <<>> }

\* uploaded files: whether the bytes are valid UTF-8, and the decoded text as
\* lines of comma-separated fields
BadUtf8File == [utf8 |-> FALSE, lines |-> <<>>]
EmptyFile == [utf8 |-> TRUE, lines |-> <<>>]
RaggedFile ==
    [utf8 |-> TRUE, lines |-> << <<"id", "age">>, <<"1", "30">>, <<"2", "41", "x">> >>]
HeaderOnlyFile == [utf8 |-> TRUE, lines |-> << <<"id", "age">> >>]
FileA == [utf8 |-> TRUE, lines |-> << <<"id", "age">>, <<"1", "30">>, <<"2">> >>]
FileB == [utf8 |-> TRUE, lines |-> << <<"score">>, <<"7">> >>]

Files == {BadUtf8File, EmptyFile, RaggedFile, HeaderOnlyFile, FileA, FileB}

(***************************************************************************)
(* pandas.  read_csv takes the first line as the header; it raises on      *)
(* empty text (EmptyDataError) and on a data line with more fields than    *)
(* the header when an earlier data line had no more than the header        *)
(* (ParserError); a short line is padded with NaN.  No file of the model   *)
(* has a first data line longer than its header, which pandas would read   *)
(* as an index column.                                                     *)
(***************************************************************************)
Pad(row, n) == [j \in 1..n |-> IF j <= Len(row) THEN row[j] ELSE "NaN"]

read_csv(lines) ==
    IF lines = <<>>
    THEN [raised |-> TRUE, msg |-> "No columns to parse from file", value |-> None]
    ELSE IF \E i \in 2..Len(lines) : Len(lines[i]) > Len(lines[1])
    THEN [raised |-> TRUE, msg |-> "Error tokenizing data", value |-> None]
    ELSE [raised |-> FALSE, msg |-> "",
          value |-> DataFrame(lines[1],
                              [i \in 1..(Len(lines) - 1) |->
                                  Pad(lines[i + 1], Len(lines[1]))])]

\* content.decode("utf-8") followed by pd.read_csv (main.py:84-87)
ingest(file) ==
    IF ~file.utf8
    THEN [raised |-> TRUE, msg |-> "codec can't decode", value |-> None]
    ELSE read_csv(file.lines)

\* DataFrame.head(n)
head(t, n) == DataFrame(t.cols, SubSeq(t.rows, 1, Min(n, Len(t.rows))))

FormatRow(row) == [j \in 1..Len(row) |-> ToString(row[j])]

\* DataFrame.to_csv(index=False).encode("utf-8"): the header line, then one line per row
to_csv(t) == <<t.cols>> \o [i \in 1..Len(t.rows) |-> FormatRow(t.rows[i])]

\* DataFrame.to_string(index=False): the header line, then one line per row
to_string(t) == <<t.cols>> \o [i \in 1..Len(t.rows) |-> FormatRow(t.rows[i])]

(***************************************************************************)
(* The synthesizer (sdv's CTGAN), by its contract: fit(table) gives a      *)
(* trained state or raises, sample(n) gives n rows over the fitted columns *)
(* or raises.  An outcome says which of the two raise and which random     *)
(* draw the sample is.                                                     *)
(***************************************************************************)
SynthOutcomes ==
    { [fit |-> FALSE, sample |-> FALSE, seed |-> 0],
      [fit |-> TRUE, sample |-> FALSE, seed |-> 0] }
    \cup { [fit |-> TRUE, sample |-> TRUE, seed |-> s] : s \in 1..NumSeeds }

CTGAN_fit(data, oc) ==
    IF oc.fit THEN [raised |-> FALSE, model |-> [cols |-> data.cols]]
    ELSE [raised |-> TRUE, model |-> [cols |-> <<>>]]

CTGAN_sample(model, n, oc) ==
    IF oc.sample
    THEN [raised |-> FALSE,
          value |-> DataFrame(model.cols,
                              [i \in 1..n |-> [j \in 1..Len(model.cols) |->
                                                  1000 * oc.seed + 10 * i + j]])]
    ELSE [raised |-> TRUE, value |-> None]

LogEntry(call, ok) == [call |-> call, ok |-> ok]

Raise(msg, calls) == [raised |-> TRUE, msg |-> msg, value |-> None, calls |-> calls]

\* generate_synthetic_data sampling one row too few
generate_synthetic_data_short(data, num_rows, oc) ==
    IF ~data.df \/ empty(data) \/ num_rows <= 0
    THEN Raise("invalid input", <<>>)
    ELSE LET fitted == CTGAN_fit(data, oc)
             sampled == CTGAN_sample(fitted.model, num_rows - 1, oc)
         IN  IF fitted.raised
             THEN Raise("fit failed", <<LogEntry("fit", FALSE)>>)
             ELSE IF sampled.raised
             THEN Raise("sample failed",
                        <<LogEntry("fit", TRUE), LogEntry("sample", FALSE)>>)
             ELSE [raised |-> FALSE, msg |-> "", value |-> sampled.value,
                   calls |-> <<LogEntry("fit", TRUE), LogEntry("sample", TRUE)>>]

\* generate_synthetic_data fitting a second time when the first fit raises
generate_synthetic_data_retry(data, num_rows, oc) ==
    IF ~data.df \/ empty(data) \/ num_rows <= 0
    THEN Raise("invalid input", <<>>)
    ELSE LET fitted == CTGAN_fit(data, oc)
             sampled == CTGAN_sample(fitted.model, num_rows, oc)
         IN  IF fitted.raised
             THEN Raise("fit failed", <<LogEntry("fit", FALSE), LogEntry("fit", FALSE)>>)
             ELSE IF sampled.raised
             THEN Raise("sample failed",
                        <<LogEntry("fit", TRUE), LogEntry("sample", FALSE)>>)
             ELSE [raised |-> FALSE, msg |-> "", value |-> sampled.value,
                   calls |-> <<LogEntry("fit", TRUE), LogEntry("sample", TRUE)>>]

(***************************************************************************)
(* synthetic_generator.py: generate_synthetic_data(data, num_rows).        *)
(* The result says whether it raised, with which message, the DataFrame    *)
(* returned, and the synthesizer calls made on the way.                    *)
(***************************************************************************)
generate_synthetic_data(data, num_rows, oc) ==
    IF ~data.df
    THEN Raise("Input data must be a pandas DataFrame.", <<>>)
    ELSE IF empty(data)
    THEN Raise("Input DataFrame is empty. Please provide valid data.", <<>>)
    ELSE IF num_rows <= 0
    THEN Raise("Number of synthetic rows must be a positive integer.", <<>>)
    ELSE LET fitted == CTGAN_fit(data, oc)
         IN  IF fitted.raised
             THEN Raise("fit failed", <<LogEntry("fit", FALSE)>>)
             ELSE LET sampled == CTGAN_sample(fitted.model, num_rows, oc)
                  IN  IF sampled.raised
                      THEN Raise("sample failed",
                                 <<LogEntry("fit", TRUE), LogEntry("sample", FALSE)>>)
                      ELSE [raised |-> FALSE, msg |-> "", value |-> sampled.value,
                            calls |-> <<LogEntry("fit", TRUE), LogEntry("sample", TRUE)>>]

(***************************************************************************)
(* The page (main.py: main).                                               *)
(***************************************************************************)
Status(kind, color, shp, msg) == [kind |-> kind, color |-> color, shape |-> shp, msg |-> msg]

NoShape == <<0, 0>>

EmptyOutput == [kind |-> "empty", text |-> <<>>]

Init ==
    /\ original_data = None
    /\ synthetic_data_df = None
    /\ rows_input = <<"1", "0", "0">>
    /\ generate_disabled = TRUE
    /\ download_visible = FALSE
    /\ download_bytes = <<>>
    /\ status_text = Status("", "GREEN", NoShape, "")
    /\ output_container = EmptyOutput
    /\ running = <<>>
    /\ synth_log = <<>>
    /\ ever_upload_ok = FALSE
    /\ ever_gen_ok = FALSE

\* file_picker_result enabling the generate button when the upload fails
file_picker_result_reenables(files) ==
    IF Len(files) > 0
    THEN LET r == ingest(files[1])
         IN  /\ original_data' = IF r.raised THEN original_data ELSE r.value
             /\ status_text' = IF r.raised
                               THEN Status("upload_error", "RED", NoShape, r.msg)
                               ELSE Status("uploaded", "GREEN", shape(r.value), "")
             /\ generate_disabled' = FALSE
             /\ ever_upload_ok' = (ever_upload_ok \/ ~r.raised)
             /\ UNCHANGED <<synthetic_data_df, rows_input, download_visible,
                            download_bytes, output_container, running, synth_log,
                            ever_gen_ok>>
    ELSE UNCHANGED vars

\* main.py:77-98.  files is e.files: empty when the picker was cancelled.
file_picker_result(files) ==
    IF Len(files) > 0
    THEN LET r == ingest(files[1])
         IN  IF ~r.raised
             THEN /\ original_data' = r.value
                  /\ status_text' = Status("uploaded", "GREEN", shape(r.value), "")
                  /\ generate_disabled' = FALSE
                  /\ ever_upload_ok' = TRUE
                  /\ UNCHANGED <<synthetic_data_df, rows_input, download_visible,
                                 download_bytes, output_container, running, synth_log,
                                 ever_gen_ok>>
             ELSE /\ status_text' = Status("upload_error", "RED", NoShape, r.msg)
                  /\ generate_disabled' = TRUE
                  /\ UNCHANGED <<original_data, synthetic_data_df, rows_input,
                                 download_visible, download_bytes, output_container,
                                 running, synth_log, ever_upload_ok, ever_gen_ok>>
    ELSE UNCHANGED vars

\* main.py:40-45.  The user edits the row-count field.
rows_input_change(text) ==
    /\ rows_input' = text
    /\ UNCHANGED <<original_data, synthetic_data_df, generate_disabled, download_visible,
                   download_bytes, status_text, output_container, running, synth_log,
                   ever_upload_ok, ever_gen_ok>>

\* parse_num_rows rejecting only negative counts (num_rows < 0)
parse_num_rows_nonneg(text) ==
    LET p == py_int(text)
    IN  IF p.ok /\ ~(p.val < 0) THEN [ok |-> TRUE, val |-> p.val]
        ELSE [ok |-> FALSE, val |-> 0]

\* main.py:109-112: int(rows_input.value), then the check num_rows <= 0
parse_num_rows(text) ==
    LET p == py_int(text)
    IN  IF p.ok /\ ~(p.val <= 0) THEN [ok |-> TRUE, val |-> p.val]
        ELSE [ok |-> FALSE, val |-> 0]

\* main.py:100-128.  A click on the generate button, which a disabled button does
\* not deliver (main.py:55-60), up to the progress indicator shown before the call.
on_generate ==
    /\ ~generate_disabled
    /\ IF ~original_data.df
       THEN /\ status_text' = Status("no_dataset", "RED", NoShape,
                                     "Please upload a dataset first.")
            /\ UNCHANGED <<output_container, running>>
       ELSE LET num_rows == parse_num_rows(rows_input)
            IN  IF ~num_rows.ok
                THEN /\ status_text' =
                            Status("invalid_rows", "RED", NoShape,
                                   "Invalid number of rows. Please enter a positive integer.")
                     /\ UNCHANGED <<output_container, running>>
                ELSE /\ status_text' =
                            Status("generating", "BLUE", NoShape,
                                   "Generating synthetic data. Please wait...")
                     /\ output_container' = [kind |-> "progress", text |-> <<>>]
                     /\ running' = Append(running, num_rows.val)
    /\ UNCHANGED <<original_data, synthetic_data_df, rows_input, generate_disabled,
                   download_visible, download_bytes, synth_log, ever_upload_ok,
                   ever_gen_ok>>

Remove(seq, i) == SubSeq(seq, 1, i - 1) \o SubSeq(seq, i + 1, Len(seq))

\* main.py:130-155.  The try block of invocation i: the call of
\* generate_synthetic_data, whose synthesizer outcome is oc, the preview and the
\* download; post_raises says that to_string or to_csv (lines 141, 146) raises.
on_generate_try(i, oc, post_raises) ==
    LET r == generate_synthetic_data(original_data, running[i], oc)
    IN  /\ running' = Remove(running, i)
        /\ synth_log' = r.calls
        /\ IF r.raised
           THEN /\ status_text' = Status("generate_error", "RED", NoShape, r.msg)
                /\ output_container' = EmptyOutput
                /\ UNCHANGED <<synthetic_data_df, download_bytes, download_visible,
                               ever_gen_ok>>
           ELSE IF post_raises
           THEN /\ synthetic_data_df' = r.value
                /\ status_text' = Status("generate_error", "RED", NoShape,
                                         "serialization failed")
                /\ output_container' = EmptyOutput
                /\ UNCHANGED <<download_bytes, download_visible, ever_gen_ok>>
           ELSE /\ synthetic_data_df' = r.value
                /\ status_text' = Status("generated", "GREEN", shape(r.value), "")
                /\ output_container' =
                       [kind |-> "preview", text |-> to_string(head(r.value, PreviewRows))]
                /\ download_bytes' = to_csv(r.value)
                /\ download_visible' = TRUE
                /\ ever_gen_ok' = TRUE
        /\ UNCHANGED <<original_data, rows_input, generate_disabled, ever_upload_ok>>

(***************************************************************************)
(* The events of a session.                                                *)
(***************************************************************************)
Upload == \E files \in {<<>>} \cup {<<f>> : f \in Files} : file_picker_result(files)

TypeRows == \E text \in RowInputs : rows_input_change(text)

Click == on_generate

Finish ==
    \E i \in 1..Len(running), oc \in SynthOutcomes, post_raises \in BOOLEAN :
        on_generate_try(i, oc, post_raises)

Idle == running = <<>>

\* A handler runs to completion before the next event is accepted.
Next ==
    \/ Idle /\ Upload
    \/ Idle /\ TypeRows
    \/ Idle /\ Click
    \/ Finish

Spec == Init /\ [][Next]_vars

\* Each event is handled on a thread of its own (Flet's dispatch of a synchronous
\* handler), so a handler may start while on_generate is inside its call: the
\* source never disables generate_button nor takes a lock while it generates.
\* The try block is one step here, so this specification shows which handlers
\* overlap, not every interleaving of their statements.
NextThreads ==
    \/ Upload
    \/ TypeRows
    \/ Len(running) < MaxInFlight /\ Click
    \/ Finish

SpecThreads == Init /\ [][NextThreads]_vars

(***************************************************************************)
(* The claims.                                                             *)
(***************************************************************************)
\* the row-count texts that are no positive integer
InvalidRowTexts == { <<"0">>, <<"-", "5">>, <<"a", "b", "c">>, <<>> }

\* the row count a valid text asks for
Requested(text) == IF text = <<"1", "0", "0">> THEN 100 ELSE IF text = <<"3">> THEN 3 ELSE 0

UploadSucceeds == \E f \in Files : file_picker_result(<<f>>) /\ ~ingest(f).raised

UploadFails == \E f \in Files : file_picker_result(<<f>>) /\ ingest(f).raised

GenerateSucceeds == Finish /\ status_text'.kind = "generated"

GenerateFails == Finish /\ status_text'.kind = "generate_error"

CountCalls(log, call) == Cardinality({k \in 1..Len(log) : log[k].call = call})

\* C1: a successful upload that follows a successful generation discards the
\* Synthetic Table and hides the download, which stays hidden until a generate
\* action succeeds.
C1_UploadDiscardsSynthetic ==
    [][ /\ (UploadSucceeds /\ synthetic_data_df.df /\ download_visible)
            => (~synthetic_data_df'.df /\ ~download_visible')
        /\ (~download_visible /\ download_visible') => GenerateSucceeds ]_vars

\* C2: a generate action that fails leaves the loaded Table unchanged and, once it
\* has completed, no Synthetic Table is held and the download is not visible.
C2_FailedGenerateLeavesNothing ==
    [][ GenerateFails
            => /\ original_data' = original_data
               /\ ~synthetic_data_df'.df
               /\ ~download_visible' ]_vars

\* C3: a failed upload changes nothing but the status message: the Table is the
\* one before it, the generate action stays enabled if a Table was loaded, and is
\* disabled afterwards only if no Table was ever loaded.
C3_FailedUploadTouchesNothing ==
    [][ UploadFails
            => /\ original_data' = original_data
               /\ synthetic_data_df' = synthetic_data_df
               /\ download_visible' = download_visible
               /\ download_bytes' = download_bytes
               /\ (original_data.df => ~generate_disabled')
               /\ (generate_disabled' => ~ever_upload_ok) ]_vars

\* C4: a generate action whose row-count text is no positive integer is rejected
\* before the synthesizer is invoked and changes nothing but the status message.
C4_InvalidRowsRejected ==
    [][ (Click /\ rows_input \in InvalidRowTexts)
            => /\ status_text'.kind = "invalid_rows"
               /\ UNCHANGED <<original_data, synthetic_data_df, rows_input,
                              generate_disabled, download_visible, download_bytes,
                              output_container, running, synth_log>> ]_vars

C4_Witness ==
    /\ status_text.kind = "invalid_rows"
    /\ rows_input = <<"0">>
    /\ synthetic_data_df.df
    /\ download_visible

\* C5: with a loaded Table of zero rows and an invalid row count, the failure a
\* generate action reports is the empty-dataset failure.
C5_EmptyCheckedFirst ==
    [][ (Click /\ original_data.df /\ empty(original_data)
               /\ rows_input \in InvalidRowTexts)
            => status_text'.msg = "Input DataFrame is empty. Please provide valid data." ]_vars

\* C6: at most one generation is in progress at any time, and while one is, no
\* second generate action is accepted and no upload handler runs.
C6_OneGenerationAtATime ==
    [][ /\ Len(running') <= 1
        /\ ~Idle => ~(UploadSucceeds \/ UploadFails) ]_vars

\* C7: a successful generate on a non-empty Table with a valid row count n holds a
\* Synthetic Table of exactly n rows with the Table's column names in order, and
\* leaves the Table as it was.
C7_RowsAndColumns ==
    [][ GenerateSucceeds
            => /\ ~empty(original_data)
               /\ Requested(rows_input) >= 1
               /\ Len(synthetic_data_df'.rows) = Requested(rows_input)
               /\ \A k \in 1..Len(synthetic_data_df'.rows) :
                      Len(synthetic_data_df'.rows[k]) = Len(original_data.cols)
               /\ synthetic_data_df'.cols = original_data.cols
               /\ original_data' = original_data ]_vars

C7_Witness ==
    /\ status_text.kind = "generated"
    /\ original_data.cols = <<"id", "age">>
    /\ rows_input = <<"3">>
    /\ shape(synthetic_data_df) = <<3, 2>>

C9_ControlsFollowHistory ==
    /\ status_text.kind = "" => (~original_data.df /\ generate_disabled /\ ~download_visible)
    /\ ~generate_disabled => ever_upload_ok
    /\ status_text.kind = "uploaded" => ~generate_disabled
    /\ download_visible => ever_gen_ok

C9_Witness ==
    /\ ever_upload_ok
    /\ generate_disabled
    /\ download_visible
    /\ status_text.kind = "upload_error"

\* C10: whenever the download is visible its bytes are the serialization of the
\* current Synthetic Table, and a preview shown with it is the first min(5, n)
\* rows of that table.
C10_DownloadIsCurrent ==
    download_visible
        => /\ synthetic_data_df.df
           /\ download_bytes = to_csv(synthetic_data_df)
           /\ output_container.kind = "preview"
                  => /\ Len(output_container.text) =
                            1 + Min(PreviewRows, Len(synthetic_data_df.rows))
                     /\ output_container.text =
                            to_string(head(synthetic_data_df, PreviewRows))

====
